---- MODULE Spec2Model ----
(***************************************************************************)
(* Model of catena-message-generic-decoder-ttn.js: the uplink decoder      *)
(* Decoder(bytes, port) of the MCCI Catena 4410/4450/4460/4551 sensor      *)
(* messages (port 1, formats 0x11, 0x14, 0x15, 0x17), with dewpoint().     *)
(*                                                                         *)
(* A JavaScript value is a record tagged by k: a number is the exact       *)
(* rational n/d in lowest terms (every number the decoder produces is a    *)
(* rational that a double holds exactly, but for p, which is pRaw/25, and  *)
(* the dew points), NaN, undefined and the string "none" are values of     *)
(* their own.  Array indices are those of the source (bytes[0] is the      *)
(* first byte).                                                            *)
(***************************************************************************)
EXTENDS Integers, Sequences, FiniteSets, TLC

VARIABLES
    pc,       \* position in Decoder: "idle", "b14", "b15", "b11", "b17", "done"
    bytes,    \* argument bytes of the current (or last) call
    port,     \* argument port of the current (or last) call
    decoded,  \* var decoded: function from the keys set so far to their values
    i,        \* var i: the index into the message
    flags,    \* var flags: the bitmap
    mask,     \* the mask of the next `if (flags & mask)` of the branch, 0 outside a branch
    globals   \* the properties of the global object: name -> value

vars == <<pc, bytes, port, decoded, i, flags, mask, globals>>

----------------------------------------------------------------------------
(* JavaScript values and the operators the decoder applies to them.        *)

RECURSIVE Gcd(_, _)
Gcd(a, b) == IF b = 0 THEN a ELSE Gcd(b, a % b)

Abs(x) == IF x < 0 THEN -x ELSE x

\* the number n/d (d > 0), in lowest terms
Rat(n, d) ==
    LET g == Gcd(Abs(n), d)
    IN  [k |-> "num", n |-> n \div g, d |-> d \div g]

Num(n) == [k |-> "num", n |-> n, d |-> 1]

NaN == [k |-> "nan"]

Undefined == [k |-> "undefined"]

StrNone == [k |-> "none"]

IsNum(v) == v.k = "num"

\* bytes[j]: undefined beyond the end of the array
Index(b, j) == IF j >= 0 /\ j < Len(b) THEN Num(b[j + 1]) ELSE Undefined

\* ToInt32 of a value, as the bit operators apply it (the numbers met are
\* integers in 0..2^24: no wrap-around)
ToInt32(v) == IF IsNum(v) THEN v.n \div v.d ELSE 0

RECURSIVE AndNat(_, _)
AndNat(a, b) ==
    IF a = 0 \/ b = 0 THEN 0
    ELSE (a % 2) * (b % 2) + 2 * AndNat(a \div 2, b \div 2)

\* v & m
BitAnd(v, m) == Num(AndNat(ToInt32(v), m))

\* v << s
Shl(v, s) == Num(ToInt32(v) * 2^s)

\* v >> s
Shr(v, s) == Num(ToInt32(v) \div 2^s)

\* if (v): a number is true unless it is 0 or NaN
Truthy(v) == IsNum(v) /\ v.n # 0

\* a + b on numbers (undefined converts to NaN)
Add(a, b) ==
    IF IsNum(a) /\ IsNum(b) THEN Rat(a.n * b.d + b.n * a.d, a.d * b.d) ELSE NaN

\* a * b
Mul(a, b) ==
    IF IsNum(a) /\ IsNum(b) THEN Rat(a.n * b.n, a.d * b.d) ELSE NaN

\* a / b, b a non-zero number or not a number
Div(a, b) ==
    IF IsNum(a) /\ IsNum(b)
    THEN IF b.n > 0 THEN Rat(a.n * b.d, a.d * b.n) ELSE Rat(-(a.n * b.d), a.d * (-b.n))
    ELSE NaN

\* Math.pow(2, e), e an integer value
Pow2(e) ==
    IF ~IsNum(e) THEN NaN
    ELSE IF e.n >= 0 THEN Num(2^(e.n)) ELSE Rat(1, 2^(-e.n))

\* a <= b, a > b on numbers (false when either is NaN)
Leq(a, b) == IsNum(a) /\ IsNum(b) /\ a.n * b.d <= b.n * a.d

Gt(a, b) == IsNum(a) /\ IsNum(b) /\ a.n * b.d > b.n * a.d

\* decoded.key = v
SetKey(dec, key, v) == (key :> v) @@ dec

EmptyObject == [key \in {} |-> Undefined]

----------------------------------------------------------------------------
(* dewpoint(t, rh).  Math.log has no rational value: the result is kept as  *)
(* the term of its two inputs after the clamp of h, which is all the code   *)
(* decides; NaN in gives NaN out.                                           *)

dewpoint(t, rh) ==
    LET h0 == Div(rh, Num(100))
        h  == IF Leq(h0, Rat(1, 100)) THEN Rat(1, 100)
              ELSE IF Gt(h0, Num(1)) THEN Num(1)
              ELSE h0
    IN  IF IsNum(t) /\ IsNum(h) THEN [k |-> "dewpoint", t |-> t, h |-> h] ELSE NaN

----------------------------------------------------------------------------
(* Program constants.                                                       *)

\* port === 1
PortData == 1

\* cmd == 0x11: Catena 4410 sensor data
Fmt4410 == 17

\* cmd == 0x14: Catena 4450 M101 data
FmtM101 == 20

\* cmd == 0x15: Catena 4450 M102 data
FmtM102 == 21

\* cmd == 0x17: Catena 4460 AQI data
FmtAqi == 23

----------------------------------------------------------------------------
(* The field groups.  A group takes the message b and the locals            *)
(* st = [i, decoded] and gives the locals after it.  The text of a group    *)
(* is repeated in each format that carries it; where the copies differ      *)
(* (the one-wire and soil groups of format 0x11) each has its definition.   *)

\* (bytes[j] << 8) + bytes[j + 1]
ReadU16(b, j) == Add(Shl(Index(b, j), 8), Index(b, j + 1))

\* SignExtend without its if: the uint16 is used as read
SignExtendNone(v) == v

\* if (v & 0x8000) v += -0x10000
SignExtend(v) == IF Truthy(BitAnd(v, \h8000)) THEN Add(v, Num(-65536)) ELSE v

\* if (flags & 0x1): vBat
VBatGroup(b, st) ==
    LET vRaw == SignExtend(ReadU16(b, st.i))
    IN  [i |-> st.i + 2,
         decoded |-> SetKey(st.decoded, "vBat", Div(vRaw, Num(4096)))]

\* if (flags & 0x2): vBus
VBusGroup(b, st) ==
    LET vRawBus == SignExtend(ReadU16(b, st.i))
    IN  [i |-> st.i + 2,
         decoded |-> SetKey(st.decoded, "vBus", Div(vRawBus, Num(4096)))]

\* BootGroup with i += 2 for its one byte
BootGroupWide(b, st) ==
    LET iBoot == Index(b, st.i)
    IN  [i |-> st.i + 2, decoded |-> SetKey(st.decoded, "boot", iBoot)]

\* boot
BootGroup(b, st) ==
    LET iBoot == Index(b, st.i)
    IN  [i |-> st.i + 1, decoded |-> SetKey(st.decoded, "boot", iBoot)]

\* temp, pressure, RH
TempGroup(b, st) ==
    LET tRaw  == SignExtend(ReadU16(b, st.i))
        pRaw  == ReadU16(b, st.i + 2)
        hRaw  == Index(b, st.i + 4)
        tempC == Div(tRaw, Num(256))
        rh    == Mul(Div(hRaw, Num(256)), Num(100))
        d1    == SetKey(st.decoded, "tempC", tempC)
        d2    == SetKey(d1, "error", StrNone)
        d3    == SetKey(d2, "p", Div(Mul(pRaw, Num(4)), Num(100)))
        d4    == SetKey(d3, "rh", rh)
    IN  [i |-> st.i + 5, decoded |-> SetKey(d4, "tDewC", dewpoint(tempC, rh))]

\* lux
LuxGroup(b, st) ==
    LET luxRaw == ReadU16(b, st.i)
    IN  [i |-> st.i + 2, decoded |-> SetKey(st.decoded, "lux", luxRaw)]

\* watthour (format 0x14)
PowerCountGroup(b, st) ==
    LET powerIn  == ReadU16(b, st.i)
        powerOut == ReadU16(b, st.i + 2)
    IN  [i |-> st.i + 4,
         decoded |-> SetKey(SetKey(st.decoded, "powerUsedCount", powerIn),
                            "powerSourcedCount", powerOut)]

\* Uflt16 with the exponent biased by 16
Uflt16Bias16(raw) ==
    LET exp1  == Shr(raw, 12)
        mant1 == Div(BitAnd(raw, \hFFF), Num(4096))
    IN  Mul(mant1, Pow2(Add(exp1, Num(-16))))

\* mant * Math.pow(2, exp - 15) of a raw uflt16
Uflt16(raw) ==
    LET exp1  == Shr(raw, 12)
        mant1 == Div(BitAnd(raw, \hFFF), Num(4096))
    IN  Mul(mant1, Pow2(Add(exp1, Num(-15))))

\* normalized floating pulses per hour (format 0x14)
PowerRateGroup(b, st) ==
    LET floatIn  == ReadU16(b, st.i)
        floatOut == ReadU16(b, st.i + 2)
        powerPerHourIn  == Mul(Mul(Mul(Uflt16(floatIn), Num(60)), Num(60)), Num(4))
        powerPerHourOut == Mul(Mul(Mul(Uflt16(floatOut), Num(60)), Num(60)), Num(4))
    IN  [i |-> st.i + 4,
         decoded |-> SetKey(SetKey(st.decoded, "powerUsedPerHour", powerPerHourIn),
                            "powerSourcedPerHour", powerPerHourOut)]

\* onewire temperature, format 0x15
OneWireGroup15(b, st) ==
    LET tempRaw == SignExtend(ReadU16(b, st.i))
    IN  [i |-> st.i + 2,
         decoded |-> SetKey(st.decoded, "tWater", Div(tempRaw, Num(256)))]

\* temperature followed by RH, format 0x15
SoilGroup15(b, st) ==
    LET tempRaw == SignExtend(ReadU16(b, st.i))
        tempRH  == Index(b, st.i + 2)
        tSoil   == Div(tempRaw, Num(256))
        rhSoil  == Mul(Div(tempRH, Num(256)), Num(100))
    IN  [i |-> st.i + 3,
         decoded |-> SetKey(SetKey(SetKey(st.decoded, "tSoil", tSoil),
                                   "rhSoil", rhSoil),
                            "tSoilDew", dewpoint(tSoil, rhSoil))]

\* OneWireGroup11 with the sign extension of the 0x15 branch
OneWireGroup11Signed(b, st) == OneWireGroup15(b, st)

\* onewire temperature, format 0x11: tempRaw is used as read
OneWireGroup11(b, st) ==
    LET tempRaw == ReadU16(b, st.i)
    IN  [i |-> st.i + 2,
         decoded |-> SetKey(st.decoded, "tWater", Div(tempRaw, Num(256)))]

\* temperature followed by RH, format 0x11: tempRaw is used as read
SoilGroup11(b, st) ==
    LET tempRaw == ReadU16(b, st.i)
        tempRH  == Index(b, st.i + 2)
        tSoil   == Div(tempRaw, Num(256))
        rhSoil  == Mul(Div(tempRH, Num(256)), Num(100))
    IN  [i |-> st.i + 3,
         decoded |-> SetKey(SetKey(SetKey(st.decoded, "tSoil", tSoil),
                                   "rhSoil", rhSoil),
                            "tSoilDew", dewpoint(tSoil, rhSoil))]

\* AQI, format 0x17
AqiGroup(b, st) ==
    LET rawUflt16  == ReadU16(b, st.i)
        f_unscaled == Uflt16(rawUflt16)
        aqi        == Mul(f_unscaled, Num(512))
    IN  [i |-> st.i + 2, decoded |-> SetKey(st.decoded, "aqi", aqi)]

----------------------------------------------------------------------------
(* The four branches: the body of `if (flags & m)` for each mask m the      *)
(* branch tests, in the order of the source.                                *)

Group14(m, b, st) ==
    CASE m = 1  -> VBatGroup(b, st)
      [] m = 2  -> VBusGroup(b, st)
      [] m = 4  -> BootGroup(b, st)
      [] m = 8  -> TempGroup(b, st)
      [] m = 16 -> LuxGroup(b, st)
      [] m = 32 -> PowerCountGroup(b, st)
      [] m = 64 -> PowerRateGroup(b, st)

Group15(m, b, st) ==
    CASE m = 1  -> VBatGroup(b, st)
      [] m = 2  -> VBusGroup(b, st)
      [] m = 4  -> BootGroup(b, st)
      [] m = 8  -> TempGroup(b, st)
      [] m = 16 -> LuxGroup(b, st)
      [] m = 32 -> OneWireGroup15(b, st)
      [] m = 64 -> SoilGroup15(b, st)

\* Group11 left as the copy of the 0x15 branch it was made from: bit 0x04 is
\* still boot
Group11WithBoot(m, b, st) == Group15(m, b, st)

Group11(m, b, st) ==
    CASE m = 1  -> VBatGroup(b, st)
      [] m = 2  -> VBusGroup(b, st)
      [] m = 4  -> TempGroup(b, st)
      [] m = 8  -> LuxGroup(b, st)
      [] m = 16 -> OneWireGroup11(b, st)
      [] m = 32 -> SoilGroup11(b, st)

Group17(m, b, st) ==
    CASE m = 1  -> VBatGroup(b, st)
      [] m = 2  -> VBusGroup(b, st)
      [] m = 4  -> BootGroup(b, st)
      [] m = 8  -> TempGroup(b, st)
      [] m = 16 -> LuxGroup(b, st)
      [] m = 32 -> AqiGroup(b, st)

\* the mask of the last `if` of each branch
LastMask(branch) ==
    CASE branch = "b14" -> 64
      [] branch = "b15" -> 64
      [] branch = "b11" -> 32
      [] branch = "b17" -> 32

\* BranchOf without the final else: a cmd that is not recognized is taken
\* for 0x14
BranchOfNoElse(cmd) ==
    IF ~IsNum(cmd) THEN "b14"
    ELSE CASE cmd.n = FmtM102 -> "b15"
           [] cmd.n = Fmt4410 -> "b11"
           [] cmd.n = FmtAqi  -> "b17"
           [] OTHER -> "b14"

\* the branch `cmd == ...` selects, "done" when cmd is not recognized
BranchOf(cmd) ==
    IF ~IsNum(cmd) THEN "done"
    ELSE CASE cmd.n = FmtM101 -> "b14"
           [] cmd.n = FmtM102 -> "b15"
           [] cmd.n = Fmt4410 -> "b11"
           [] cmd.n = FmtAqi  -> "b17"
           [] OTHER -> "done"

----------------------------------------------------------------------------
(* The inputs: the messages of the source's test vectors as they stand,     *)
(* and every format byte and bitmap followed by a sample body, cut to a     *)
(* length.                                                                  *)

\* how many of the sample bodies are used
NumBodies == 4

\* the messages of up to MaxShort bytes are tried beside the full ones
MaxShort == 6

\* bytes that are no format (0x99, 0x00)
UnknownFormats == {153, 0}

\* the values of a byte
Byte == 0..255

\* the bodies: the bytes after the bitmap in test vectors of the source,
\* continued to the length of the longest layout (20 bytes)
Bodies ==
    << \* 14 0D F8 00 42 17 80 59 35 80, then F9 07 and E9 AF of the 0x17 vectors
       << 248, 0, 66, 23, 128, 89, 53, 128, 249, 7, 233, 175,
          24, 0, 248, 0, 249, 27, 236, 1 >>,
       \* 15 7D 42 D4 21 F5 9B 5E 5F C1 00 00 01 C1 F9 1B EC
       << 66, 212, 33, 245, 155, 94, 95, 193, 0, 0, 1, 193, 249, 27, 236,
          233, 175, 24, 0, 66 >>,
       \* 11 3D 44 60 15 9D 5F CD C3 00 00 1C 11 14 46 E4
       << 68, 96, 21, 157, 95, 205, 195, 0, 0, 28, 17, 20, 70, 228,
          249, 7, 248, 0, 24, 0 >>,
       \* 14 01 18 00, then 17 3D 43 72 07 17 A4 5F CB A7 01 DB E9 AF
       << 24, 0, 67, 114, 7, 23, 164, 95, 203, 167, 1, 219, 233, 175,
          128, 0, 127, 255, 255, 255 >>,
       \* 17 3D 44 60 0D 15 9D 5F CD C3 00 00 F9 07
       << 68, 96, 13, 21, 157, 95, 205, 195, 0, 0, 249, 7,
          128, 0, 255, 255, 0, 1, 127, 255 >> >>

\* the test vectors of the source that carry their own length
TestVectors ==
    { << 20, 1, 24, 0 >>,
      << 20, 1, 248, 0 >>,
      << 20, 5, 248, 0, 66 >>,
      << 20, 13, 248, 0, 66, 23, 128, 89, 53, 128 >>,
      << 21, 125, 68, 96, 13, 21, 157, 95, 205, 195, 0, 0, 28, 17, 20, 70, 228 >>,
      << 21, 125, 66, 212, 33, 245, 155, 94, 95, 193, 0, 0, 1, 193, 249, 27, 236 >>,
      << 17, 5, 248, 0, 23, 128, 89, 53, 128 >>,
      << 17, 61, 68, 96, 21, 157, 95, 205, 195, 0, 0, 28, 17, 20, 70, 228 >>,
      << 23, 61, 68, 96, 13, 21, 157, 95, 205, 195, 0, 0, 249, 7 >>,
      << 23, 61, 67, 114, 7, 23, 164, 95, 203, 167, 1, 219, 233, 175 >> }

FormatBytes == {Fmt4410, FmtM101, FmtM102, FmtAqi} \cup UnknownFormats

Take(s, n) == SubSeq(s, 1, IF n < Len(s) THEN n ELSE Len(s))

BodyIds == 1..(IF NumBodies < Len(Bodies) THEN NumBodies ELSE Len(Bodies))

Message(f, fl, v) == << f, fl >> \o Bodies[v]

FullMessages ==
    { Message(f, fl, v) : f \in FormatBytes, fl \in Byte, v \in BodyIds }

ShortMessages == { Take(m, n) : m \in FullMessages, n \in 0..MaxShort }

\* the messages of at most a format byte and a bitmap
HeaderMessages == { m \in ShortMessages : Len(m) <= 2 }

Messages == TestVectors \cup FullMessages \cup ShortMessages

\* the calls: every message on port 1; on the other ports, where no byte is
\* read, the test vectors, the headers and the full messages of one bitmap
OtherPorts == {0, 2}

Calls ==
    { << m, PortData >> : m \in Messages }
        \cup { << m, p >> :
                  m \in TestVectors \cup HeaderMessages
                          \cup { x \in FullMessages : x[2] = 255 },
                  p \in OtherPorts }

----------------------------------------------------------------------------
(* The state machine.                                                       *)

Init ==
    /\ pc = "idle"
    /\ bytes = << >>
    /\ port = 0
    /\ decoded = EmptyObject
    /\ i = Undefined
    /\ flags = Undefined
    /\ mask = 0
    /\ globals = EmptyObject

\* Decoder(b, p) up to the first `if (flags & 0x1)` of the branch taken:
\* var decoded = {}; if (port === 1) { cmd = bytes[0]; if (cmd == ...) {
\* var i = 1; var flags = bytes[i++]; ...
Call(b, p) ==
    /\ pc = "idle"
    /\ bytes' = b
    /\ port' = p
    /\ decoded' = EmptyObject
    /\ IF p = PortData
       THEN LET cmd == Index(b, 0)
                br  == BranchOf(cmd)
            IN  /\ globals' = SetKey(globals, "cmd", cmd)
                /\ pc' = br
                /\ IF br = "done"
                   THEN i' = Undefined /\ flags' = Undefined /\ mask' = 0
                   ELSE i' = Num(2) /\ flags' = Index(b, 1) /\ mask' = 1
       ELSE /\ pc' = "done"
            /\ i' = Undefined /\ flags' = Undefined /\ mask' = 0
            /\ UNCHANGED globals

\* one `if (flags & mask) { ... }` of a branch; after the last one the branch
\* ends and Decoder is at `return decoded`
IfGroup(branch, after) ==
    /\ pc = branch
    /\ LET st == [i |-> i.n, decoded |-> decoded]
           nx == IF Truthy(BitAnd(flags, mask)) THEN after ELSE st
       IN  /\ i' = Num(nx.i)
           /\ decoded' = nx.decoded
    /\ IF mask = LastMask(branch)
       THEN pc' = "done" /\ mask' = 0
       ELSE pc' = pc /\ mask' = 2 * mask
    /\ UNCHANGED <<bytes, port, flags, globals>>

Branch14 == IfGroup("b14", Group14(mask, bytes, [i |-> i.n, decoded |-> decoded]))

Branch15 == IfGroup("b15", Group15(mask, bytes, [i |-> i.n, decoded |-> decoded]))

Branch11 == IfGroup("b11", Group11(mask, bytes, [i |-> i.n, decoded |-> decoded]))

Branch17 == IfGroup("b17", Group17(mask, bytes, [i |-> i.n, decoded |-> decoded]))

\* return decoded: the locals of the call are gone, the global object stays
Return ==
    /\ pc = "done"
    /\ pc' = "idle"
    /\ bytes' = << >>
    /\ port' = 0
    /\ decoded' = EmptyObject
    /\ i' = Undefined
    /\ flags' = Undefined
    /\ mask' = 0
    /\ UNCHANGED globals

\* the caller hands Decoder a message and a port
Uplink == pc = "idle" /\ \E c \in Calls : Call(c[1], c[2])

Next ==
    \/ Uplink
    \/ Branch14
    \/ Branch15
    \/ Branch11
    \/ Branch17
    \/ Return

Spec == Init /\ [][Next]_vars

----------------------------------------------------------------------------
(* The vocabulary of the claims: the bit-to-field table of the              *)
(* specification, the layout it implies, and the raw values of a message.   *)

Formats == {Fmt4410, FmtM101, FmtM102, FmtAqi}

Masks == {1, 2, 4, 8, 16, 32, 64, 128}

HasBit(fl, m) == (fl \div m) % 2 = 1

\* the field group of bit m in the column of format f, "none" without an entry
TableGroup(f, m) ==
    CASE m = 1 -> "vBat"
      [] m = 2 -> "vBus"
      [] m = 4 -> IF f = Fmt4410 THEN "temp" ELSE "boot"
      [] m = 8 -> IF f = Fmt4410 THEN "lux" ELSE "temp"
      [] m = 16 -> IF f = Fmt4410 THEN "oneWire" ELSE "lux"
      [] m = 32 -> (CASE f = Fmt4410 -> "soil"
                      [] f = FmtM101 -> "powerCount"
                      [] f = FmtM102 -> "oneWire"
                      [] f = FmtAqi  -> "aqi")
      [] m = 64 -> (CASE f = FmtM101 -> "powerRate"
                      [] f = FmtM102 -> "soil"
                      [] OTHER -> "none")
      [] OTHER -> "none"

GroupKeys(g) ==
    CASE g = "vBat" -> {"vBat"}
      [] g = "vBus" -> {"vBus"}
      [] g = "boot" -> {"boot"}
      [] g = "temp" -> {"tempC", "p", "rh", "tDewC", "error"}
      [] g = "lux" -> {"lux"}
      [] g = "oneWire" -> {"tWater"}
      [] g = "soil" -> {"tSoil", "rhSoil", "tSoilDew"}
      [] g = "powerCount" -> {"powerUsedCount", "powerSourcedCount"}
      [] g = "powerRate" -> {"powerUsedPerHour", "powerSourcedPerHour"}
      [] g = "aqi" -> {"aqi"}
      [] g = "none" -> {}

GroupWidth(g) ==
    CASE g = "vBat" -> 2
      [] g = "vBus" -> 2
      [] g = "boot" -> 1
      [] g = "temp" -> 5
      [] g = "lux" -> 2
      [] g = "oneWire" -> 2
      [] g = "soil" -> 3
      [] g = "powerCount" -> 4
      [] g = "powerRate" -> 4
      [] g = "aqi" -> 2
      [] g = "none" -> 0

\* the keys the table gives bitmap fl in format f
TableKeys(f, fl) ==
    UNION { GroupKeys(TableGroup(f, m)) : m \in { x \in Masks : HasBit(fl, x) } }

\* the total width of the groups of fl whose bit is below m
RECURSIVE WidthBelow(_, _, _)
WidthBelow(f, fl, m) ==
    IF m = 1 THEN 0
    ELSE WidthBelow(f, fl, m \div 2)
           + (IF HasBit(fl, m \div 2) THEN GroupWidth(TableGroup(f, m \div 2)) ELSE 0)

\* the offset in the message at which group g of format f starts under fl
\* (g a group of the format's column)
OffsetOf(f, fl, g) ==
    LET m == CHOOSE x \in Masks : TableGroup(f, x) = g
    IN  2 + WidthBelow(f, fl, m)

\* the bit of group g in format f is set in fl
Present(f, fl, g) == \E x \in Masks : TableGroup(f, x) = g /\ HasBit(fl, x)

\* a call on port 1 of a message with a known format byte and a bitmap
Recognized ==
    /\ pc # "idle"
    /\ port = PortData
    /\ Len(bytes) >= 2
    /\ bytes[1] \in Formats

\* group g is in the message and all its bytes are
Whole(g) ==
    /\ Recognized
    /\ Present(bytes[1], bytes[2], g)
    /\ OffsetOf(bytes[1], bytes[2], g) + GroupWidth(g) <= Len(bytes)

\* the big-endian 16-bit value at offset o of the message (bytes[o], bytes[o + 1])
Raw16(o) == bytes[o + 1] * 256 + bytes[o + 2]

\* the two's-complement 16-bit reading of r
Int16(r) == IF r < 32768 THEN r ELSE r - 65536

\* the raw 16-bit value at byte k (0 or 2) of group g
RawOf(g, k) == Raw16(OffsetOf(bytes[1], bytes[2], g) + k)

----------------------------------------------------------------------------
\* C1: on a port other than 1, and on port 1 when bytes[0] is none of 0x11,
\* 0x14, 0x15, 0x17 (an empty message included), Decoder returns a record
\* with no key.
C1_Unrecognized ==
    (pc = "done" /\ (port # PortData \/ bytes = << >> \/ bytes[1] \notin Formats))
        => DOMAIN decoded = {}

\* an unknown format byte before a full bitmap and a full body, returned
C1_Witness ==
    /\ pc = "done"
    /\ port = PortData
    /\ Len(bytes) = 22
    /\ bytes[1] \in UnknownFormats
    /\ bytes[2] = 255
    /\ DOMAIN decoded = {}

\* C2: on port 1, for each format and every bitmap, the keys of the returned
\* record are exactly the keys the table gives the set bits; a bit without
\* an entry adds none, and bitmap 0 gives none.
C2_KeysFromTable ==
    (pc = "done" /\ Recognized)
        => /\ DOMAIN decoded = TableKeys(bytes[1], bytes[2])
           /\ (bytes[2] = 0 => DOMAIN decoded = {})

\* format 0x11 with bitmap 0xFF: all six groups, no key for bits 0x40 and 0x80
C2_Witness ==
    /\ pc = "done"
    /\ Recognized
    /\ bytes[1] = Fmt4410
    /\ bytes[2] = 255
    /\ Cardinality(DOMAIN decoded) = 12
    /\ "boot" \notin DOMAIN decoded

\* C3: in every format vBat and vBus are the two's-complement 16-bit reading
\* of their two big-endian bytes, divided by 4096: raw 0x1800 gives 1.5, raw
\* 0xF800 gives -0.5, and 14 05 F8 00 42 decodes to {vBat: -0.5, boot: 66}.
C3_Voltage ==
    /\ \A g \in {"vBat", "vBus"} :
         (pc = "done" /\ Whole(g))
            => /\ g \in DOMAIN decoded
               /\ decoded[g] = Rat(Int16(RawOf(g, 0)), 4096)
               /\ (RawOf(g, 0) = 6144 => decoded[g] = Rat(3, 2))
               /\ (RawOf(g, 0) = 63488 => decoded[g] = Rat(-1, 2))
    /\ (pc = "done" /\ port = PortData /\ bytes = << 20, 5, 248, 0, 66 >>)
            => decoded = [vBat |-> Rat(-1, 2), boot |-> Num(66)]

\* 14 05 F8 00 42 on port 1, returned with a negative vBat
C3_Witness ==
    /\ pc = "done"
    /\ port = PortData
    /\ bytes = << 20, 5, 248, 0, 66 >>
    /\ Whole("vBat")
    /\ decoded["vBat"] = Rat(-1, 2)

\* C4: no call creates or changes a property of the global object, and no
\* step of a call changes the message it was given.
C4_NoSideEffect ==
    [][/\ globals' = globals
       /\ (pc \notin {"idle", "done"} => bytes' = bytes)]_vars

\* C5: at every point of a call the cursor is within the message:
\* 0 <= i <= bytes.length.
C5_CursorInMessage == IsNum(i) => (0 <= i.n /\ i.n <= Len(bytes))

\* C6: a key is in the returned record only if all the bytes of its field
\* group are in the message.
C6_KeyHasBytes ==
    (pc = "done" /\ Recognized)
        => \A m \in Masks :
             LET g == TableGroup(bytes[1], m)
             IN  (GroupKeys(g) \cap DOMAIN decoded # {})
                    => OffsetOf(bytes[1], bytes[2], g) + GroupWidth(g) <= Len(bytes)

\* C7 as claimed: format 0x11 computes tempC and tWater from the raw value
\* without sign extension, formats 0x14, 0x15 and 0x17 sign-extend it.
C7_Tempc11Unsigned ==
    /\ (pc = "done" /\ Whole("temp"))
          => decoded["tempC"] =
                Rat(IF bytes[1] = Fmt4410 THEN RawOf("temp", 0)
                    ELSE Int16(RawOf("temp", 0)), 256)
    /\ (pc = "done" /\ Whole("oneWire"))
          => decoded["tWater"] =
                Rat(IF bytes[1] = Fmt4410 THEN RawOf("oneWire", 0)
                    ELSE Int16(RawOf("oneWire", 0)), 256)

\* C7, amended: format 0x11 computes tWater from the raw value without sign
\* extension (raw/256, never negative) where format 0x15 sign-extends it;
\* tempC is sign-extended in all four formats, format 0x11 included.
C7_OnlyWater11Unsigned ==
    /\ (pc = "done" /\ Whole("temp"))
          => decoded["tempC"] = Rat(Int16(RawOf("temp", 0)), 256)
    /\ (pc = "done" /\ Whole("oneWire"))
          => /\ decoded["tWater"] =
                   Rat(IF bytes[1] = Fmt4410 THEN RawOf("oneWire", 0)
                       ELSE Int16(RawOf("oneWire", 0)), 256)
             /\ (bytes[1] = Fmt4410 => decoded["tWater"].n >= 0)

\* format 0x11 with both raw temperatures at or above 0x8000: tempC is
\* negative, tWater is not
C7_Witness ==
    /\ pc = "done"
    /\ Whole("temp")
    /\ Whole("oneWire")
    /\ bytes[1] = Fmt4410
    /\ RawOf("temp", 0) >= 32768
    /\ RawOf("oneWire", 0) >= 32768
    /\ decoded["tempC"].n < 0
    /\ decoded["tWater"].n > 0

\* C8: tSoil is the two's-complement 16-bit reading of its raw bytes divided
\* by 256 in format 0x11 and in format 0x15, and the same three bytes give
\* the same tSoil, rhSoil and tSoilDew in both.
C8_SoilSigned ==
    (pc = "done" /\ Whole("soil"))
        => LET o      == OffsetOf(bytes[1], bytes[2], "soil")
               tSoil  == Rat(Int16(Raw16(o)), 256)
               rhSoil == Rat(bytes[o + 3] * 100, 256)
           IN  /\ decoded["tSoil"] = tSoil
               /\ decoded["rhSoil"] = rhSoil
               /\ decoded["tSoilDew"] = dewpoint(tSoil, rhSoil)

\* C9: before `if (flags & m)` the cursor is 2 plus the widths of the groups
\* of the lower set bits, at the return it is 2 plus the widths of all the
\* groups present; a group is read at that offset whatever the other bytes
\* are: boot, lux and the power counts are the raw bytes found there, and
\* 15 7D 44 60 0D 15 9D 5F CD C3 00 00 1C 11 14 46 E4 decodes as the source
\* says.
C9_Layout ==
    /\ (Recognized /\ pc # "done")
          => i = Num(2 + WidthBelow(bytes[1], bytes[2], mask))
    /\ (Recognized /\ pc = "done")
          => i = Num(2 + WidthBelow(bytes[1], bytes[2], 256))
    /\ (pc = "done" /\ Whole("boot"))
          => decoded["boot"] = Num(bytes[OffsetOf(bytes[1], bytes[2], "boot") + 1])
    /\ (pc = "done" /\ Whole("lux"))
          => decoded["lux"] = Num(RawOf("lux", 0))
    /\ (pc = "done" /\ Whole("powerCount"))
          => /\ decoded["powerUsedCount"] = Num(RawOf("powerCount", 0))
             /\ decoded["powerSourcedCount"] = Num(RawOf("powerCount", 2))
    /\ (pc = "done" /\ port = PortData
          /\ bytes = << 21, 125, 68, 96, 13, 21, 157, 95, 205, 195, 0, 0,
                        28, 17, 20, 70, 228 >>)
          => /\ decoded["vBat"] = Rat(17504, 4096)       \* 4.2734375
             /\ decoded["boot"] = Num(13)
             /\ decoded["tempC"] = Rat(5533, 256)        \* 21.61328125
             /\ decoded["p"] = Num(981)
             /\ decoded["rh"] = Rat(19500, 256)          \* 76.171875
             /\ decoded["lux"] = Num(0)
             /\ decoded["tWater"] = Rat(7185, 256)       \* 28.06640625
             /\ decoded["tSoil"] = Rat(5190, 256)        \* 20.2734375
             /\ decoded["rhSoil"] = Rat(22800, 256)      \* 89.0625

\* the 17-byte vector of format 0x15, returned with the cursor at its end
C9_Witness ==
    /\ pc = "done"
    /\ port = PortData
    /\ bytes = << 21, 125, 68, 96, 13, 21, 157, 95, 205, 195, 0, 0,
                  28, 17, 20, 70, 228 >>
    /\ i = Num(17)
    /\ decoded["tSoil"] = Rat(5190, 256)

\* C10: in format 0x17 aqi is m * 2^e / 2^18 for e = raw >> 12 and
\* m = raw & 0xFFF: never negative, below 512, 288.875 for raw 0xF907 and
\* 154.9375 for raw 0xE9AF; the power rates of format 0x14 are the same
\* decode times 3600 * 4, that is m * 14400 / 2^(27 - e).
C10_MiniFloat ==
    /\ (pc = "done" /\ Whole("aqi"))
          => LET raw == RawOf("aqi", 0)
                 e   == raw \div 4096
                 m   == raw % 4096
             IN  /\ decoded["aqi"] = Rat(m * 2^e, 262144)
                 /\ decoded["aqi"].n >= 0
                 /\ decoded["aqi"].n < 512 * decoded["aqi"].d
                 /\ (raw = 63751 => decoded["aqi"] = Rat(2311, 8))
                 /\ (raw = 59823 => decoded["aqi"] = Rat(2479, 16))
    /\ (pc = "done" /\ Whole("powerRate"))
          => LET rate(raw) == Rat((raw % 4096) * 14400, 2^(27 - (raw \div 4096)))
             IN  /\ decoded["powerUsedPerHour"] = rate(RawOf("powerRate", 0))
                 /\ decoded["powerSourcedPerHour"] = rate(RawOf("powerRate", 2))

\* 17 3D 44 60 0D 15 9D 5F CD C3 00 00 F9 07, returned with aqi 288.875
C10_Witness ==
    /\ pc = "done"
    /\ port = PortData
    /\ bytes = << 23, 61, 68, 96, 13, 21, 157, 95, 205, 195, 0, 0, 249, 7 >>
    /\ Whole("aqi")
    /\ decoded["aqi"] = Rat(2311, 8)

====
